---- MODULE Spec2Model ----
\* Remote-approval coordination of cchh (src/src/mcp/approval_server.py and
\* its caller src/src/mcp/server.py), modelled as the asyncio program it is:
\* one event loop, coroutines that run atomically between their awaits, and
\* futures whose waiters are woken by a later loop iteration (call_soon).
EXTENDS Integers, Sequences, FiniteSets, TLC

\* ------------------------------------------------------------------ bounds
\* calls of create_approval_request that the model follows
MaxCalls == 2
\* hook processes with a SlackNotifier that run at the same time
MaxProcs == 2
\* messages that Slack accepts
MaxPosts == 3
\* threads that call EventLogger.handle_event on one logger
MaxThreads == 2
\* handle_event calls of each thread
MaxLogCalls == 2

\* ------------------------------------------------------------------ inputs
CallIdx == 1..MaxCalls
\* request ids; handle_call_tool draws them with uuid4, the API takes any
Ids == 1..MaxCalls
\* data.get("request_id") of a body without the key (falsy)
NoId == 0
\* the "input" argument of the tool call: a dict that may carry a session_id
\* (input_data.get("session_id", "") is "" without the key)
Inputs == {[command |-> "ls", session_id |-> ""],
           [command |-> "rm", session_id |-> "s1"]}
\* os.environ.get("CCHH_CLAUDE_SESSION_ID", "") of a process started without it
EnvSessionId == ""
\* arguments.get("tool_name") of a call without the key, or with an empty one
NoToolName == ""
ToolNames == {"Bash", NoToolName}

\* ApprovalServer(timeout_seconds=300): the default, which server.py uses
DefaultTimeoutSeconds == 300
\* the timeouts an ApprovalServer is constructed with
TimeoutSeconds == {DefaultTimeoutSeconds, 60}

VARIABLES
    pending_approvals,  \* self.pending_approvals: request_id -> future (by call)
    approval_details,   \* self.approval_details: dict, in insertion order
    session_mapping,    \* self.session_mapping: request_id -> session_id
    futures,            \* the live asyncio.Future objects, by the call that made them
    waiters,            \* the suspended create_approval_request frames, by call
    timers,             \* the sleeping _timeout_handler tasks, by call: their request_id
    calls,              \* number of create_approval_request calls made
    uuids,              \* number of uuid4 values drawn
    slack_configured,   \* SlackIntegration.is_configured (environment)
    timeout_seconds,    \* self.timeout_seconds
    tool_result,        \* what the call that ended in this step gave its caller
    response,           \* the HTTP response written in this step
    sent                \* the SlackIntegration sends scheduled in this step

\* The hook side (all_hooks.py): an EventDispatcher and its handlers.
VARIABLES
    slack,              \* EventDispatcher.slack is not None
    zunda,              \* EventDispatcher.zunda is not None
    logger,             \* EventDispatcher.logger is not None
    dispatch_pc,        \* where EventDispatcher.dispatch is
    dispatched,         \* the event that dispatch was called with
    handled             \* the handle_event calls that this dispatch has made

\* The SlackNotifier of each hook process, the files they share and Slack.
VARIABLES
    notifiers,          \* per process: where handle_event is, and its locals
    session_files,      \* ~/.cchh/sessions/<session_id>.session
    thread_files,       \* thread_dir/<session_id>.json: the saved thread_ts
    channel,            \* the messages Slack accepted; the ts of one is its index
    posted              \* the chat.postMessage call made in this step

\* the SlackNotifier instances and what they share
notifier == <<notifiers, session_files, thread_files, channel, posted>>

\* One EventLogger, the threads in its handle_event and the log directory.
VARIABLES
    log_threads,        \* per thread: where handle_event is, and its locals
    log_dir,            \* the directory: events.jsonl (0) and events.<i> -> inode
    inodes              \* the content of every file made: its lines

\* the EventLogger and its files
event_logger == <<log_threads, log_dir, inodes>>

\* the EventDispatcher
dispatcher == <<slack, zunda, logger, dispatch_pc, dispatched, handled>>

\* the state of the hook processes, which the MCP server never touches
hooks == <<dispatcher, notifier, event_logger>>

\* the state of the MCP server, which the hook processes never touch
server == <<pending_approvals, approval_details, session_mapping, futures, waiters,
            timers, calls, uuids, slack_configured, timeout_seconds, tool_result,
            response, sent>>

vars == <<pending_approvals, approval_details, session_mapping, futures, waiters,
          timers, calls, uuids, slack_configured, timeout_seconds, tool_result,
          response, sent, hooks>>

\* the registries and tasks of the ApprovalServer
registries == <<pending_approvals, approval_details, session_mapping>>

environment == <<slack_configured, timeout_seconds, hooks>>

\* ------------------------------------------------------------ dict helpers
\* A Python dict as a function on its key set.
DictHas(d, k) == k \in DOMAIN d

DictSet(d, k, v) == [x \in (DOMAIN d) \cup {k} |-> IF x = k THEN v ELSE d[x]]

DictPop(d, k) == [x \in (DOMAIN d) \ {k} |-> d[x]]

\* approval_details keeps insertion order (handle_pending iterates it):
\* a sequence of <<key, value>> pairs without repeated keys.
ODictKeys(d) == {d[i][1] : i \in 1..Len(d)}

ODictKeySeq(d) == [i \in 1..Len(d) |-> d[i][1]]

ODictGet(d, k) == d[CHOOSE i \in 1..Len(d) : d[i][1] = k][2]

ODictSet(d, k, v) ==
    IF k \in ODictKeys(d)
    THEN [i \in 1..Len(d) |-> IF d[i][1] = k THEN <<k, v>> ELSE d[i]]
    ELSE Append(d, <<k, v>>)

ODictPop(d, k) == SelectSeq(d, LAMBDA p : p[1] # k)

\* ------------------------------------------------------------------ values
NoResult == [behavior |-> "none"]

\* an allow that falls back to the default of details.get("input", {})
AllowEmptyInput(input_data) == [behavior |-> "allow", updatedInput |-> << >>]

AllowResult(input_data) == [behavior |-> "allow", updatedInput |-> input_data]

DenyByUser == [behavior |-> "deny", message |-> "Request denied by user"]

DenyByTimeout == [behavior |-> "deny", message |-> "Request timed out after 5 minutes"]

NewFuture == [state |-> "PENDING", result |-> NoResult]

FutureDone(f) == futures[f].state # "PENDING"

SetResult(f, r) == [futures EXCEPT ![f] = [state |-> "FINISHED", result |-> r]]

NoToolResult == [call |-> 0, request_id |-> 0, pc |-> "none", result |-> NoResult]

\* handle_call_tool left by "raise ValueError(text)"
Raised(text) ==
    [call |-> 0, request_id |-> 0, pc |-> "raised",
     result |-> [behavior |-> "none", error |-> text]]

NoResponse == [op |-> "none", id |-> NoId, status |-> 0, body |-> <<>>]

NoSends == << >>

\* ---------------------------------------------------------------- the sink
\* "if session_id and self.slack.is_configured: asyncio.create_task(to_thread(...))".
\* ok is what the send will come to in its thread: _send_message returns True,
\* or the post fails (an exception, a non-200 answer) and it returns False.
SlackResult(session_id, request_id, result, ok) ==
    IF session_id # "" /\ slack_configured
    THEN <<[kind |-> "result", id |-> request_id, result |-> result, delivered |-> ok]>>
    ELSE NoSends

SlackRequest(session_id, request_id, ok) ==
    IF session_id # "" /\ slack_configured
    THEN <<[kind |-> "request", id |-> request_id, result |-> "-", delivered |-> ok]>>
    ELSE NoSends

\* a send that is awaited by the coroutine that makes it and raises on failure
PropagatesFailure(sends) == \E i \in 1..Len(sends) : ~sends[i].delivered

\* Whether a failing send raises in the coroutine that scheduled it: never.
\* The send runs in its own task (create_task(to_thread(...)), not awaited)
\* and _send_message catches every exception.
Propagates(sends) == FALSE

\* self.session_mapping.get(request_id), with None as ""
SessionOf(request_id) ==
    IF DictHas(session_mapping, request_id) THEN session_mapping[request_id] ELSE ""

\* --------------------------------------------------------------------- Init
\* no EventDispatcher at work
DispatcherIdle ==
    /\ slack = FALSE
    /\ zunda = FALSE
    /\ logger = FALSE
    /\ dispatch_pc = "idle"
    /\ dispatched = "-"
    /\ handled = << >>

Procs == 1..MaxProcs

\* session ids of the events
Sessions == {"s1"}

\* no thread file for the session
NoFile == -1
\* result.get("ts") and thread_state.get("thread_ts") when there is none (None)
NoTs == 0

NoPost == [proc |-> 0, session |-> "-", kind |-> "-", level |-> "-",
           thread_ts |-> NoTs, outcome |-> "-", result |-> NoTs]

\* a SlackNotifier that is handling no event, with an empty tracker cache
IdleNotifier ==
    [pc |-> "idle", session |-> "-", sending |-> "-",
     is_new_session |-> FALSE, thread_state |-> NoFile, message_ts |-> NoTs,
     trackers |-> [s \in Sessions |-> "none"]]

\* no SlackNotifier at work
NotifierIdle ==
    /\ notifiers = [p \in Procs |-> IdleNotifier]
    /\ session_files = [s \in Sessions |-> "missing"]
    /\ thread_files = [s \in Sessions |-> NoFile]
    /\ channel = << >>
    /\ posted = NoPost

LogThreads == 1..MaxThreads

\* LOG_ROTATION_COUNT: the rotated files events.1 .. events.<count> that are kept
LogRotationCount == 2
\* LOG_MAX_SIZE_MB, counted in lines: a larger events.jsonl is rotated
MaxLogSize == 1

\* the names in the log directory: 0 is events.jsonl, i is events.<i>
LogNames == 0..LogRotationCount

\* no file under a name; no open file
NoInode == 0

IdleLogThread == [pc |-> "idle", calls |-> 0, f |-> NoInode, i |-> 0]

\* an EventLogger that no thread uses, and an empty log directory
LoggerIdle ==
    /\ log_threads = [t \in LogThreads |-> IdleLogThread]
    /\ log_dir = [name \in LogNames |-> NoInode]
    /\ inodes = << >>

HooksIdle == DispatcherIdle /\ NotifierIdle /\ LoggerIdle

Init ==
    /\ HooksIdle
    /\ pending_approvals = << >>
    /\ approval_details = << >>
    /\ session_mapping = << >>
    /\ futures = << >>
    /\ waiters = << >>
    /\ timers = << >>
    /\ calls = 0
    /\ uuids = 0
    /\ slack_configured \in BOOLEAN
    /\ timeout_seconds = DefaultTimeoutSeconds
    /\ tool_result = NoToolResult
    /\ response = NoResponse
    /\ sent = NoSends

\* ApprovalServer(port, timeout_seconds) constructed by a caller of its own
ApiInit ==
    /\ HooksIdle
    /\ pending_approvals = << >>
    /\ approval_details = << >>
    /\ session_mapping = << >>
    /\ futures = << >>
    /\ waiters = << >>
    /\ timers = << >>
    /\ calls = 0
    /\ uuids = 0
    /\ slack_configured \in BOOLEAN
    /\ timeout_seconds \in TimeoutSeconds
    /\ tool_result = NoToolResult
    /\ response = NoResponse
    /\ sent = NoSends

\* ------------------------------------------------- create_approval_request
\* a timer that is started by the notification path only
ArmTimerWhenNotifying(future, request_id) ==
    IF slack_configured THEN DictSet(timers, future, request_id) ELSE timers

\* create_approval_request line 52: asyncio.create_task(self._timeout_handler(request_id))
ArmTimer(future, request_id) == DictSet(timers, future, request_id)

\* Lines 44-52: the synchronous part, up to "await future".
CreateApprovalRequest(request_id, details, session_id) ==
    LET future == calls + 1 IN
    /\ calls < MaxCalls
    /\ calls' = calls + 1
    /\ futures' = DictSet(futures, future, NewFuture)
    /\ pending_approvals' = DictSet(pending_approvals, request_id, future)
    /\ approval_details' = ODictSet(approval_details, request_id, details)
    /\ session_mapping' = IF session_id # ""
                          THEN DictSet(session_mapping, request_id, session_id)
                          ELSE session_mapping
    /\ timers' = ArmTimer(future, request_id)
    /\ waiters' = DictSet(waiters, future,
                          [request_id |-> request_id, details |-> details,
                           must_cancel |-> FALSE])
    /\ tool_result' = NoToolResult
    /\ response' = NoResponse

\* str(uuid.uuid4()): a value no earlier draw returned.
Uuid4 == uuids + 1

\* handle_call_tool lines 99-106: the session id comes from the tool input,
\* else from the environment.
SessionIdFor(input_data) ==
    IF input_data.session_id # "" THEN input_data.session_id ELSE EnvSessionId

\* a handler that does not look at tool_name
MissingToolNameIgnored(tool_name) == FALSE

\* handle_call_tool line 88: "if not tool_name"
MissingToolName(tool_name) == tool_name = NoToolName

\* handle_call_tool: the validation of its arguments, then the request id, the
\* notification and create_approval_request up to the suspended await.
HandleCallTool(tool_name, input_data) ==
    LET request_id == Uuid4
        details == [tool_name |-> tool_name, input |-> input_data]
        session_id == SessionIdFor(input_data)
    IN  IF MissingToolName(tool_name)
        THEN /\ tool_result' = Raised("Missing tool_name")
             /\ response' = NoResponse
             /\ sent' = NoSends
             /\ UNCHANGED <<registries, futures, waiters, timers, calls, uuids,
                            environment>>
        ELSE \E ok \in BOOLEAN :
             IF Propagates(SlackRequest(session_id, request_id, ok))
             THEN /\ uuids' = uuids + 1
                  /\ tool_result' = Raised("send_approval_request")
                  /\ response' = NoResponse
                  /\ sent' = SlackRequest(session_id, request_id, ok)
                  /\ UNCHANGED <<registries, futures, waiters, timers, calls,
                                 environment>>
             ELSE /\ uuids' = uuids + 1
                  /\ sent' = SlackRequest(session_id, request_id, ok)
                  /\ CreateApprovalRequest(request_id, details, session_id)
                  /\ UNCHANGED environment

\* create_approval_request called directly, with a request id of the caller's choice.
ApiCreate(request_id, input_data) ==
    /\ CreateApprovalRequest(request_id, [tool_name |-> "Bash", input |-> input_data],
                             input_data.session_id)
    /\ sent' = NoSends
    /\ UNCHANGED <<uuids, environment>>

\* a cleanup that forgets one of the registries
CleanupDetailsKept(request_id) == approval_details

CleanupSessionsKept(request_id) == session_mapping

CleanupPendingKept(request_id) == pending_approvals

\* a cleanup that clears the whole dict instead of popping one key
CleanupDetailsAll(request_id) == << >>

\* "result = await future ... finally: pop, pop, pop": the three registries
\* after the cleanup of the call that was made for request_id.
CleanupPending(request_id) == DictPop(pending_approvals, request_id)

CleanupDetails(request_id) == ODictPop(approval_details, request_id)

CleanupSessions(request_id) == DictPop(session_mapping, request_id)

\* a create_approval_request that reports its timeout by raising
\* asyncio.TimeoutError, as asyncio.wait_for would
AwaitOutcomeWaitFor(c) ==
    IF futures[c].state = "CANCELLED" \/ waiters[c].must_cancel
    THEN [call |-> c, request_id |-> waiters[c].request_id, pc |-> "cancelled",
          result |-> NoResult]
    ELSE IF futures[c].result = DenyByTimeout
    THEN [call |-> c, request_id |-> waiters[c].request_id, pc |-> "TimeoutError",
          result |-> NoResult]
    ELSE [call |-> c, request_id |-> waiters[c].request_id, pc |-> "returned",
          result |-> futures[c].result]

\* What the resumed "await future" gives the caller: the future's result, or
\* CancelledError when the future or the task was cancelled.
AwaitOutcome(c) ==
    IF futures[c].state = "CANCELLED" \/ waiters[c].must_cancel
    THEN [call |-> c, request_id |-> waiters[c].request_id, pc |-> "cancelled",
          result |-> NoResult]
    ELSE [call |-> c, request_id |-> waiters[c].request_id, pc |-> "returned",
          result |-> futures[c].result]

\* handle_call_tool line 131: the result made up for asyncio.TimeoutError
DenyNoMessage == [behavior |-> "deny"]

\* handle_call_tool lines 124-132: the result of create_approval_request is
\* passed on, "except asyncio.TimeoutError" turns into a deny, and any other
\* exception goes through.
ToolCallResult(outcome) ==
    IF outcome.pc = "TimeoutError"
    THEN [outcome EXCEPT !.pc = "returned", !.result = DenyNoMessage]
    ELSE outcome

\* The loop runs the wakeup that the done future scheduled for its waiter:
\* the call ends, and its frame and its future are garbage.
WaiterResume(c) ==
    /\ c \in DOMAIN waiters
    /\ FutureDone(c)
    /\ tool_result' = ToolCallResult(AwaitOutcome(c))
    /\ waiters' = DictPop(waiters, c)
    /\ futures' = DictPop(futures, c)
    /\ pending_approvals' = CleanupPending(waiters[c].request_id)
    /\ approval_details' = CleanupDetails(waiters[c].request_id)
    /\ session_mapping' = CleanupSessions(waiters[c].request_id)
    /\ response' = NoResponse
    /\ sent' = NoSends
    /\ UNCHANGED <<timers, calls, uuids, environment>>

\* Task.cancel() on the task suspended in create_approval_request: a pending
\* future is cancelled, a done one leaves the task marked to be cancelled.
CancelWaiter(c) ==
    /\ c \in DOMAIN waiters
    /\ ~waiters[c].must_cancel
    /\ futures[c].state # "CANCELLED"
    /\ IF futures[c].state = "PENDING"
       THEN /\ futures' = [futures EXCEPT ![c].state = "CANCELLED"]
            /\ UNCHANGED waiters
       ELSE /\ waiters' = [waiters EXCEPT ![c].must_cancel = TRUE]
            /\ UNCHANGED futures
    /\ tool_result' = NoToolResult
    /\ response' = NoResponse
    /\ sent' = NoSends
    /\ UNCHANGED <<registries, timers, calls, uuids, environment>>

\* ---------------------------------------------------------- the timeout
\* a timer without the "if not future.done()" test
TimeoutAppliesToDone(request_id) == DictHas(pending_approvals, request_id)

\* _timeout_handler lines 67-69: "if request_id in ...: if not future.done():"
TimeoutApplies(request_id) ==
    /\ DictHas(pending_approvals, request_id)
    /\ ~FutureDone(pending_approvals[request_id])

\* a timeout that fails open: the timer allows the request
TimeoutFuturesAllow(request_id) ==
    IF TimeoutApplies(request_id)
    THEN SetResult(pending_approvals[request_id],
                   AllowResult(ODictGet(approval_details, request_id).input))
    ELSE futures

\* a timer that wakes up and resolves nothing
TimeoutFuturesNever(request_id) == futures

\* _timeout_handler line 71
TimeoutFutures(request_id) ==
    IF TimeoutApplies(request_id)
    THEN SetResult(pending_approvals[request_id], DenyByTimeout)
    ELSE futures

\* _timeout_handler lines 73-83: the notification, inside "if not future.done()"
TimeoutSink(request_id, ok) ==
    IF TimeoutApplies(request_id)
    THEN SlackResult(SessionOf(request_id), request_id, "denied (timeout)", ok)
    ELSE NoSends

\* _timeout_handler, after "await asyncio.sleep(self.timeout_seconds)":
\* the task runs to its end.
TimeoutHandler(t) ==
    /\ t \in DOMAIN timers
    /\ timers' = DictPop(timers, t)
    /\ futures' = TimeoutFutures(timers[t])
    /\ \E ok \in BOOLEAN : sent' = TimeoutSink(timers[t], ok)
    /\ tool_result' = NoToolResult
    /\ response' = NoResponse
    /\ UNCHANGED <<registries, waiters, calls, uuids, environment>>

\* --------------------------------------------------------- HTTP handlers
\* a request body that is not JSON: request.json() raises
BadJson == -1

\* what "data.get('request_id')" can be for the bodies that are followed
HttpBodies == Ids \cup {NoId, BadJson}

HttpResponse(op, request_id, status, text) ==
    [op |-> op, id |-> request_id, status |-> status, body |-> <<text>>]

\* handle_pending lines 87-97: one summary per item of approval_details.
PendingList == ODictKeySeq(approval_details)

HandlePending ==
    /\ response' = [op |-> "pending", id |-> NoId, status |-> 200, body |-> PendingList]
    /\ tool_result' = NoToolResult
    /\ sent' = NoSends
    /\ UNCHANGED <<registries, futures, waiters, timers, calls, uuids, environment>>

\* handle_approve lines 110-113: the id is not a key of pending_approvals
LookupMiss(request_id) == ~DictHas(pending_approvals, request_id)

\* handlers without the not-found return: an unknown id is reported as success
HttpErrorNoLookup(op, request_id) ==
    IF request_id = BadJson THEN HttpResponse(op, request_id, 500, "error")
    ELSE IF request_id = NoId THEN HttpResponse(op, request_id, 400, "Missing request_id")
    ELSE HttpResponse(op, request_id, 200, "ok")

\* handlers that answer every request with success
HttpErrorAlwaysOk(op, request_id) == HttpResponse(op, request_id, 200, "ok")

\* the early returns of handle_approve and handle_deny (400, 404) and their
\* "except Exception" (500)
HttpError(op, request_id) ==
    IF request_id = BadJson THEN HttpResponse(op, request_id, 500, "error")
    ELSE IF request_id = NoId THEN HttpResponse(op, request_id, 400, "Missing request_id")
    ELSE HttpResponse(op, request_id, 404, "Request not found or already processed")

\* an approve that resolves the oldest pending request instead of the named one
ApproveFuturesOldest(request_id) ==
    LET open == {f \in DOMAIN futures : futures[f].state = "PENDING"} IN
    IF open # {}
    THEN LET f == CHOOSE x \in open : \A y \in open : x <= y IN
         SetResult(f, AllowResult(waiters[f].details.input))
    ELSE futures

\* an approve that waits its turn: it resolves a request only when no older
\* request is still listed
ApproveFuturesHeadOnly(request_id) ==
    IF ~FutureDone(pending_approvals[request_id])
       /\ approval_details[1][1] = request_id
    THEN SetResult(pending_approvals[request_id],
                   AllowResult(ODictGet(approval_details, request_id).input))
    ELSE futures

\* handle_approve lines 115-120: "if not future.done(): set_result(allow)"
ApproveFutures(request_id) ==
    IF ~FutureDone(pending_approvals[request_id])
    THEN SetResult(pending_approvals[request_id],
                   AllowResult(ODictGet(approval_details, request_id).input))
    ELSE futures

\* handle_approve lines 122-132: the notification, after the "if"
ApproveSink(request_id, ok) ==
    SlackResult(SessionOf(request_id), request_id, "approved", ok)

\* handle_approve line 134
ApproveResponse(request_id) == HttpResponse("approve", request_id, 200, "approved")

HandleApprove(request_id) ==
    /\ tool_result' = NoToolResult
    /\ UNCHANGED <<registries, waiters, timers, calls, uuids, environment>>
    /\ IF request_id \in {BadJson, NoId} \/ LookupMiss(request_id)
       THEN /\ response' = HttpError("approve", request_id)
            /\ sent' = NoSends
            /\ UNCHANGED futures
       ELSE \E ok \in BOOLEAN :
            /\ futures' = ApproveFutures(request_id)
            /\ sent' = ApproveSink(request_id, ok)
            /\ response' = IF Propagates(ApproveSink(request_id, ok))
                           THEN HttpResponse("approve", request_id, 500, "error")
                           ELSE ApproveResponse(request_id)

\* handle_deny without its "if not future.done()": the last write wins
DenyFuturesOverwrite(request_id) == SetResult(pending_approvals[request_id], DenyByUser)

\* handle_deny lines 155-157: "if not future.done(): set_result(deny)"
DenyFutures(request_id) ==
    IF ~FutureDone(pending_approvals[request_id])
    THEN SetResult(pending_approvals[request_id], DenyByUser)
    ELSE futures

\* handle_deny lines 159-169: the notification, after the "if"
DenySink(request_id, ok) ==
    SlackResult(SessionOf(request_id), request_id, "denied", ok)

\* handle_deny line 171
DenyResponse(request_id) == HttpResponse("deny", request_id, 200, "denied")

HandleDeny(request_id) ==
    /\ tool_result' = NoToolResult
    /\ UNCHANGED <<registries, waiters, timers, calls, uuids, environment>>
    /\ IF request_id \in {BadJson, NoId} \/ LookupMiss(request_id)
       THEN /\ response' = HttpError("deny", request_id)
            /\ sent' = NoSends
            /\ UNCHANGED futures
       ELSE \E ok \in BOOLEAN :
            /\ futures' = DenyFutures(request_id)
            /\ sent' = DenySink(request_id, ok)
            /\ response' = IF Propagates(DenySink(request_id, ok))
                           THEN HttpResponse("deny", request_id, 500, "error")
                           ELSE DenyResponse(request_id)

\* ------------------------------------------------------- specifications
\* The MCP server: every request enters through handle_call_tool.
Next ==
    \/ \E tool_name \in ToolNames, input_data \in Inputs :
          HandleCallTool(tool_name, input_data)
    \/ \E c \in CallIdx : WaiterResume(c)
    \/ \E c \in CallIdx : CancelWaiter(c)
    \/ \E t \in CallIdx : TimeoutHandler(t)
    \/ HandlePending
    \/ \E request_id \in HttpBodies : HandleApprove(request_id)
    \/ \E request_id \in HttpBodies : HandleDeny(request_id)

Spec == Init /\ [][Next]_vars

\* ApprovalServer used as a library: create_approval_request takes any id.
ApiNext ==
    \/ \E request_id \in Ids, input_data \in Inputs : ApiCreate(request_id, input_data)
    \/ \E c \in CallIdx : WaiterResume(c)
    \/ \E c \in CallIdx : CancelWaiter(c)
    \/ \E t \in CallIdx : TimeoutHandler(t)
    \/ HandlePending
    \/ \E request_id \in HttpBodies : HandleApprove(request_id)
    \/ \E request_id \in HttpBodies : HandleDeny(request_id)

ApiSpec == ApiInit /\ [][ApiNext]_vars

\* One iteration of the asyncio event loop on the server's own tasks: it
\* resumes a _timeout_handler whose sleep is over or a waiter whose future is done.
LoopStep == \E c \in CallIdx : TimeoutHandler(c) \/ WaiterResume(c)

\* The event loop keeps running while a timer is due or a callback is ready.
LiveSpec == Spec /\ WF_vars(LoopStep)

\* ---------------------------------------------------------- the hook side
\* an ApprovalServer that serves nothing while the hooks are followed
ServerIdle ==
    /\ pending_approvals = << >>
    /\ approval_details = << >>
    /\ session_mapping = << >>
    /\ futures = << >>
    /\ waiters = << >>
    /\ timers = << >>
    /\ calls = 0
    /\ uuids = 0
    /\ slack_configured = FALSE
    /\ timeout_seconds = DefaultTimeoutSeconds
    /\ tool_result = NoToolResult
    /\ response = NoResponse
    /\ sent = NoSends

\* hook_event_name of the events that are dispatched
HookEventNames == {"PreToolUse", "PostToolUse", "Stop"}

\* how a handle_event call ends: it returns, or it raises an Exception
HandlerOutcomes == {"returned", "Exception"}

\* handlers in the order in which dispatch goes through them
HandlerOrder == <<"slack", "zunda", "logger">>

\* a dispatch without its try blocks
ExceptNothing(outcome) == FALSE

\* dispatch lines 59, 65, 71: "except Exception as e: print(...)"
ExceptException(outcome) == outcome = "Exception"

\* EventDispatcher.__init__: each handler is built when its environment
\* variable enables it, else it is None.
DispatchInit ==
    /\ ServerIdle
    /\ slack \in BOOLEAN
    /\ zunda \in BOOLEAN
    /\ logger \in BOOLEAN
    /\ dispatch_pc = "idle"
    /\ dispatched = "-"
    /\ handled = << >>
    /\ NotifierIdle
    /\ LoggerIdle

\* dispatch(event) is called
Dispatch(event) ==
    /\ dispatch_pc \in {"idle", "returned", "raised"}
    /\ dispatch_pc' = "slack"
    /\ dispatched' = event
    /\ handled' = << >>
    /\ UNCHANGED <<slack, zunda, logger, server, notifier, event_logger>>

\* one "if self.<handler>: try: self.<handler>.handle_event(event) except ..."
CallHandler(name, enabled, next) ==
    /\ dispatch_pc = name
    /\ IF enabled
       THEN \E outcome \in HandlerOutcomes :
               /\ handled' = Append(handled, [handler |-> name, event |-> dispatched,
                                              outcome |-> outcome])
               /\ dispatch_pc' = IF outcome = "returned" \/ ExceptException(outcome)
                                 THEN next ELSE "raised"
       ELSE /\ handled' = handled
            /\ dispatch_pc' = next
    /\ UNCHANGED <<slack, zunda, logger, dispatched, server, notifier, event_logger>>

\* dispatch lines 56-60
DispatchSlack == CallHandler("slack", slack, "zunda")

\* dispatch lines 62-66
DispatchZunda == CallHandler("zunda", zunda, "logger")

\* dispatch lines 68-72
DispatchLogger == CallHandler("logger", logger, "returned")

DispatchNext ==
    \/ \E event \in HookEventNames : Dispatch(event)
    \/ DispatchSlack
    \/ DispatchZunda
    \/ DispatchLogger

\* One hook process: an EventDispatcher and the events given to it.
DispatchSpec == DispatchInit /\ [][DispatchNext]_vars

\* ------------------------------------------------------- SlackNotifier
\* NotificationLevel of the notification that an event produces
Levels == {"CHANNEL", "THREAD"}

\* how chat.postMessage ends: ok true with a ts, ok false, or urlopen raises
PostOutcomes == {"ok", "not_ok", "exception"}

\* The hook processes start with Slack configured and notifications enabled;
\* a session file may be left from an earlier day.
NotifierInit ==
    /\ ServerIdle
    /\ DispatcherIdle
    /\ notifiers = [p \in Procs |-> IdleNotifier]
    /\ session_files \in [Sessions -> {"missing", "stale", "fresh"}]
    /\ thread_files = [s \in Sessions |-> NoFile]
    /\ channel = << >>
    /\ posted = NoPost
    /\ LoggerIdle

\* what the processes other than the one that moves leave alone
NotifierFrame == UNCHANGED <<server, dispatcher, event_logger>>

\* handle_event lines 38-46, up to the session tracker: _get_session_tracker
\* returns the cached tracker, or constructs one, which looks at the file.
NotifierHandleEvent(p, session_id) ==
    LET n == notifiers[p] IN
    /\ n.pc = "idle"
    /\ notifiers' =
          [notifiers EXCEPT ![p] =
             IF n.trackers[session_id] = "none"
             THEN [n EXCEPT !.pc = "check", !.session = session_id]
             ELSE [n EXCEPT !.pc = "load", !.session = session_id,
                            !.is_new_session = (n.trackers[session_id] = "new"),
                            !.sending = IF n.trackers[session_id] = "new"
                                        THEN "start" ELSE "event"]]
    /\ posted' = NoPost
    /\ UNCHANGED <<session_files, thread_files, channel>>
    /\ NotifierFrame

\* _check_new_session lines 30-39: "if not exists()" and the mtime test
CheckNewSession(p) ==
    LET n == notifiers[p] IN
    /\ n.pc = "check"
    /\ notifiers' = [notifiers EXCEPT ![p] =
                       [n EXCEPT !.pc = "touch",
                                 !.is_new_session = (session_files[n.session] # "fresh")]]
    /\ posted' = NoPost
    /\ UNCHANGED <<session_files, thread_files, channel>>
    /\ NotifierFrame

\* _check_new_session lines 31, 38, 42: _create_session_file() or touch();
\* the tracker goes into the cache with its is_new_session.
TouchSessionFile(p) ==
    LET n == notifiers[p] IN
    /\ n.pc = "touch"
    /\ session_files' = [session_files EXCEPT ![n.session] = "fresh"]
    /\ notifiers' =
          [notifiers EXCEPT ![p] =
             [n EXCEPT !.pc = "load",
                       !.sending = IF n.is_new_session THEN "start" ELSE "event",
                       !.trackers[n.session] = IF n.is_new_session THEN "new" ELSE "old"]]
    /\ posted' = NoPost
    /\ UNCHANGED <<thread_files, channel>>
    /\ NotifierFrame

\* _send_notification line 213: _load_thread_state
LoadThreadState(p) ==
    LET n == notifiers[p] IN
    /\ n.pc = "load"
    /\ notifiers' = [notifiers EXCEPT ![p] =
                       [n EXCEPT !.pc = "post", !.thread_state = thread_files[n.session]]]
    /\ posted' = NoPost
    /\ UNCHANGED <<session_files, thread_files, channel>>
    /\ NotifierFrame

\* line 214: "not thread_state or not thread_state.get('thread_ts')"
IsNewThread(thread_state) == thread_state \in {NoFile, NoTs}

\* lines 227-236: data["thread_ts"], for CHANNEL and for THREAD alike
DataThreadTs(thread_state) == IF IsNewThread(thread_state) THEN NoTs ELSE thread_state

\* a send that saves whatever the post came to
ShouldSaveAlways(outcome, message_ts, is_new_thread) == is_new_thread

\* lines 251-257: "if result.get('ok'): ... if message_ts and is_new_thread:"
ShouldSave(outcome, message_ts, is_new_thread) ==
    outcome = "ok" /\ message_ts # NoTs /\ is_new_thread

\* the notifier after a send of its handle_event: the event's own
\* notification follows the session start, then handle_event returns
AfterSend(n) ==
    IF n.sending = "start"
    THEN [n EXCEPT !.pc = "load", !.sending = "event", !.message_ts = NoTs,
                   !.thread_state = NoFile]
    ELSE [IdleNotifier EXCEPT !.trackers = n.trackers]

\* _send_notification lines 216-296: the post and what it returns. The level
\* is the one the event's formatter chose (CHANNEL for a session start).
Post(p) ==
    LET n == notifiers[p] IN
    /\ n.pc = "post"
    /\ \E outcome \in PostOutcomes,
          level \in (IF n.sending = "start" THEN {"CHANNEL"} ELSE Levels) :
          LET message_ts == IF outcome = "ok" THEN Len(channel) + 1 ELSE NoTs
              thread_ts == DataThreadTs(n.thread_state)
          IN  /\ outcome = "ok" => Len(channel) < MaxPosts
              /\ channel' = IF outcome = "ok"
                            THEN Append(channel, [session |-> n.session,
                                                  kind |-> n.sending,
                                                  thread_ts |-> thread_ts])
                            ELSE channel
              /\ posted' = [proc |-> p, session |-> n.session, kind |-> n.sending,
                            level |-> level, thread_ts |-> thread_ts,
                            outcome |-> outcome,
                            result |-> message_ts]
              /\ notifiers' =
                    [notifiers EXCEPT ![p] =
                       IF ShouldSave(outcome, message_ts, IsNewThread(n.thread_state))
                       THEN [n EXCEPT !.pc = "save", !.message_ts = message_ts]
                       ELSE AfterSend(n)]
    /\ UNCHANGED <<session_files, thread_files>>
    /\ NotifierFrame

\* _save_thread_state lines 316-319
SaveThreadState(p) ==
    LET n == notifiers[p] IN
    /\ n.pc = "save"
    /\ thread_files' = [thread_files EXCEPT ![n.session] = n.message_ts]
    /\ notifiers' = [notifiers EXCEPT ![p] = AfterSend(n)]
    /\ posted' = NoPost
    /\ UNCHANGED <<session_files, channel>>
    /\ NotifierFrame

\* the hook process ends and the next one starts with a new SlackNotifier
NewInstance(p) ==
    /\ notifiers[p].pc = "idle"
    /\ notifiers[p] # IdleNotifier
    /\ notifiers' = [notifiers EXCEPT ![p] = IdleNotifier]
    /\ posted' = NoPost
    /\ UNCHANGED <<session_files, thread_files, channel>>
    /\ NotifierFrame

NotifierNext ==
    \/ \E p \in Procs, session_id \in Sessions : NotifierHandleEvent(p, session_id)
    \/ \E p \in Procs : CheckNewSession(p)
    \/ \E p \in Procs : TouchSessionFile(p)
    \/ \E p \in Procs : LoadThreadState(p)
    \/ \E p \in Procs : Post(p)
    \/ \E p \in Procs : SaveThreadState(p)
    \/ \E p \in Procs : NewInstance(p)

\* Hook processes that run at the same time, each with its SlackNotifier.
NotifierSpec == NotifierInit /\ [][NotifierNext]_vars

\* ---------------------------------------------------------- EventLogger
\* An enabled EventLogger outside the test environment, on an empty directory.
LoggerInit ==
    /\ ServerIdle
    /\ DispatcherIdle
    /\ NotifierIdle
    /\ LoggerIdle

LoggerFrame == UNCHANGED <<server, dispatcher, notifier>>

\* handle_event lines 28-32: the call is made and reaches _log_event
LoggerHandleEvent(t) ==
    /\ log_threads[t].pc = "idle"
    /\ log_threads[t].calls < MaxLogCalls
    /\ log_threads' = [log_threads EXCEPT ![t].pc = "open", ![t].calls = @ + 1]
    /\ UNCHANGED <<log_dir, inodes>>
    /\ LoggerFrame

\* _log_event line 46: open(self.log_file, "a") opens events.jsonl, and makes
\* it when there is none
OpenLog(t) ==
    /\ log_threads[t].pc = "open"
    /\ IF log_dir[0] = NoInode
       THEN /\ inodes' = Append(inodes, << >>)
            /\ log_dir' = [log_dir EXCEPT ![0] = Len(inodes) + 1]
            /\ log_threads' = [log_threads EXCEPT ![t].pc = "write",
                                                  ![t].f = Len(inodes) + 1]
       ELSE /\ log_threads' = [log_threads EXCEPT ![t].pc = "write",
                                                  ![t].f = log_dir[0]]
            /\ UNCHANGED <<log_dir, inodes>>
    /\ LoggerFrame

\* _log_event line 47 and the close: the line is appended, in one write, to
\* the file that was opened, whatever its name is by now
Written(content, line) == Append(content, line)

WriteLog(t) ==
    /\ log_threads[t].pc = "write"
    /\ inodes' = [inodes EXCEPT ![log_threads[t].f] =
                     Written(@, <<t, log_threads[t].calls>>)]
    /\ log_threads' = [log_threads EXCEPT ![t].pc = "check", ![t].f = NoInode]
    /\ UNCHANGED log_dir
    /\ LoggerFrame

\* _check_rotation lines 54-59: no file, or a file that is small enough, ends
\* handle_event; a larger one is rotated
CheckRotation(t) ==
    /\ log_threads[t].pc = "check"
    /\ log_threads' =
          [log_threads EXCEPT ![t].pc =
             IF log_dir[0] # NoInode /\ Len(inodes[log_dir[0]]) > MaxLogSize
             THEN "oldest" ELSE "idle"]
    /\ UNCHANGED <<log_dir, inodes>>
    /\ LoggerFrame

\* _rotate_logs lines 67-72: "if oldest.exists(): oldest.unlink()"
UnlinkOldest(t) ==
    /\ log_threads[t].pc = "oldest"
    /\ log_dir' = [log_dir EXCEPT ![LogRotationCount] = NoInode]
    /\ log_threads' = [log_threads EXCEPT
                         ![t].pc = IF LogRotationCount > 1 THEN "shift" ELSE "rotate",
                         ![t].i = LogRotationCount - 1]
    /\ UNCHANGED inodes
    /\ LoggerFrame

\* _rotate_logs lines 75-79: one round of the loop, events.<i> to events.<i+1>
ShiftLog(t) ==
    LET i == log_threads[t].i IN
    /\ log_threads[t].pc = "shift"
    /\ log_dir' = IF log_dir[i] # NoInode
                  THEN [log_dir EXCEPT ![i + 1] = log_dir[i], ![i] = NoInode]
                  ELSE log_dir
    /\ log_threads' = [log_threads EXCEPT
                         ![t].pc = IF i > 1 THEN "shift" ELSE "rotate",
                         ![t].i = i - 1]
    /\ UNCHANGED inodes
    /\ LoggerFrame

\* _rotate_logs lines 82-86: events.jsonl is renamed to events.1; without an
\* events.jsonl the rename raises, which is caught
RotateLog(t) ==
    /\ log_threads[t].pc = "rotate"
    /\ log_dir' = IF log_dir[0] # NoInode
                  THEN [log_dir EXCEPT ![1] = log_dir[0], ![0] = NoInode]
                  ELSE log_dir
    /\ log_threads' = [log_threads EXCEPT ![t].pc = "idle"]
    /\ UNCHANGED inodes
    /\ LoggerFrame

LoggerNext ==
    \/ \E t \in LogThreads : LoggerHandleEvent(t)
    \/ \E t \in LogThreads : OpenLog(t)
    \/ \E t \in LogThreads : WriteLog(t)
    \/ \E t \in LogThreads : CheckRotation(t)
    \/ \E t \in LogThreads : UnlinkOldest(t)
    \/ \E t \in LogThreads : ShiftLog(t)
    \/ \E t \in LogThreads : RotateLog(t)

\* Threads that call handle_event of one EventLogger at the same time.
LoggerSpec == LoggerInit /\ [][LoggerNext]_vars

\* ------------------------------------------------------------ vocabulary
\* the step just taken was POST /approve or POST /deny for request_id
Decided(request_id) ==
    /\ response'.op \in {"approve", "deny"}
    /\ response'.id = request_id

\* the step just taken assigned the decision slot of future f
Assigned(f) ==
    /\ f \in DOMAIN futures
    /\ futures[f].state = "PENDING"
    /\ f \in DOMAIN futures'
    /\ futures'[f].state = "FINISHED"

\* the step just taken ended a call of create_approval_request
CallEnded == tool_result'.pc \in {"returned", "cancelled"}

\* the request ids of the calls that are still suspended
WaitedIds == {waiters[c].request_id : c \in DOMAIN waiters}

\* ---------------------------------------------------------------- claims
\* C1: the decision slot of a request is assigned at most once. A done future
\* is never changed by a later approve, deny or timeout, and the value that
\* create_approval_request returns is the one the first writer stored.
C1_AssignedOnce ==
    [][ /\ \A f \in DOMAIN futures :
              (FutureDone(f) /\ f \in DOMAIN futures') => futures'[f] = futures[f]
        /\ tool_result'.pc = "returned" =>
              /\ futures[tool_result'.call].state = "FINISHED"
              /\ tool_result'.result = futures[tool_result'.call].result
      ]_vars

\* C1 witness: a deny was handled for a request whose slot already held allow.
C1_Witness ==
    /\ response.op = "deny"
    /\ response.status = 200
    /\ DictHas(pending_approvals, response.id)
    /\ futures[pending_approvals[response.id]].result.behavior = "allow"

\* C2: fail-closed. A decision slot receives "allow" only from an approve that
\* names its request id and finds the slot unassigned (so before any deny or
\* timeout), and a caller is given "allow" only from such a slot: a timeout, a
\* cancellation or a missing decision never yields allow.
C2_FailClosed ==
    [][ /\ \A f \in DOMAIN futures' :
              (/\ futures'[f].result.behavior = "allow"
               /\ (f \in DOMAIN futures => futures[f] # futures'[f]))
              => /\ Assigned(f)
                 /\ response'.op = "approve"
                 /\ response'.status = 200
                 /\ DictHas(pending_approvals, response'.id)
                 /\ pending_approvals[response'.id] = f
        /\ tool_result'.result.behavior = "allow" =>
              /\ tool_result'.pc = "returned"
              /\ futures[tool_result'.call].result.behavior = "allow"
      ]_vars

\* C2 witness: a caller was given allow.
C2_Witness == tool_result.pc = "returned" /\ tool_result.result.behavior = "allow"

\* C3: every call of create_approval_request eventually ends, and a timer that
\* finds its request undecided resolves it to deny with a message.
C3_EventuallyReturns ==
    /\ \A c \in CallIdx : (c \in DOMAIN waiters) ~> (c \notin DOMAIN waiters)
    /\ [][ \A t \in DOMAIN timers :
              (t \notin DOMAIN timers' /\ TimeoutApplies(timers[t]))
              => LET r == futures'[pending_approvals[timers[t]]].result IN
                 r.behavior = "deny" /\ "message" \in DOMAIN r
         ]_vars

\* C3 witness: a caller was given the deny of the timeout.
C3_Witness == tool_result.pc = "returned" /\ tool_result.result = DenyByTimeout

\* C4 (as claimed): an approve or deny that finds the decision slot of its
\* request already assigned does not answer "approved" or "denied": those are
\* answered only by the call that assigned the slot.
C4_AlreadyResolvedReported ==
    [][ \A request_id \in Ids :
            (/\ Decided(request_id)
             /\ DictHas(pending_approvals, request_id)
             /\ futures[pending_approvals[request_id]].state = "FINISHED")
            => response'.body \notin {<<"approved">>, <<"denied">>}
      ]_vars

\* C5 (as claimed): the losing path sends nothing. A result notification for
\* a request is scheduled only by the step that assigned its decision slot,
\* never by a step that found the slot already assigned.
C5_LoserSendsNothing ==
    [][ \A i \in 1..Len(sent') :
            (/\ sent'[i].kind = "result"
             /\ futures[pending_approvals[sent'[i].id]].state # "CANCELLED")
            => Assigned(pending_approvals[sent'[i].id])
      ]_vars

C7_NotFound ==
    [][ \A request_id \in Ids :
            (Decided(request_id) /\ LookupMiss(request_id))
            => /\ response'.status = 404
               /\ UNCHANGED <<registries, futures, waiters, timers>>
               /\ sent' = NoSends
      ]_vars

\* C7 witness: a 404 for an id that had been registered and was removed.
C7_Witness ==
    /\ response.op \in {"approve", "deny"}
    /\ response.status = 404
    /\ response.id \in 1..uuids

\* C8: no entry outlives its waiter. Every key of the three registries belongs
\* to a call that is still suspended, and the step that ends a call (by
\* approve, deny, timeout or cancellation) leaves its id in none of them.
C8_NoEntryOutlivesWaiter ==
    /\ [][ CallEnded =>
              /\ tool_result'.request_id \notin DOMAIN pending_approvals'
              /\ tool_result'.request_id \notin ODictKeys(approval_details')
              /\ tool_result'.request_id \notin DOMAIN session_mapping'
         ]_vars
    /\ [](((DOMAIN pending_approvals) \cup ODictKeys(approval_details)
            \cup (DOMAIN session_mapping)) \subseteq WaitedIds)

\* C8 witness: a call ended by cancellation and its entry is gone, while the
\* entry and the session mapping of another, still suspended, call remain.
C8_Witness ==
    /\ tool_result.pc = "cancelled"
    /\ tool_result.request_id \notin WaitedIds
    /\ \E c \in DOMAIN waiters : DictHas(session_mapping, waiters[c].request_id)

\* C9: no cross-talk. An approve or deny naming one id leaves every other
\* request's decision slot and every registry entry as it was, an allow
\* carries the arguments of the call it resolves, and a call that ends
\* returns its own slot's value and removes only its own entry.
C9_NoCrossTalk ==
    [][ /\ \A request_id \in Ids :
              (Decided(request_id) /\ response'.status = 200)
              => /\ \A f \in DOMAIN futures :
                       f # pending_approvals[request_id] => futures'[f] = futures[f]
                 /\ UNCHANGED <<registries, waiters>>
        /\ \A f \in DOMAIN futures :
              (Assigned(f) /\ futures'[f].result.behavior = "allow")
              => futures'[f].result.updatedInput = waiters[f].details.input
        /\ CallEnded =>
              /\ tool_result'.request_id = waiters[tool_result'.call].request_id
              /\ tool_result'.pc = "returned" =>
                    tool_result'.result = futures[tool_result'.call].result
              /\ \A c \in DOMAIN waiters \ {tool_result'.call} :
                    /\ c \in DOMAIN waiters'
                    /\ futures'[c] = futures[c]
                    /\ pending_approvals'[waiters[c].request_id] = c
      ]_vars

\* C9 witness: two calls with different arguments are suspended, one approved
\* and one denied, each under its own id.
C9_Witness ==
    /\ DOMAIN waiters = {1, 2}
    /\ waiters[1].details # waiters[2].details
    /\ futures[1].result.behavior = "allow"
    /\ futures[2].result = DenyByUser

\* C10 (as claimed): registering an id that is already a key of
\* pending_approvals leaves the existing entry in place.
C10_NoOverwrite ==
    [][ \A request_id \in Ids :
            (/\ calls' = calls + 1
             /\ waiters'[calls'].request_id = request_id
             /\ DictHas(pending_approvals, request_id))
            => pending_approvals'[request_id] = pending_approvals[request_id]
      ]_vars

\* C11: a GET /pending snapshot lists exactly the requests that are outstanding
\* (registered, their call not yet returned), each exactly once: no id is
\* listed twice and no registered, undecided request is missing.
C11_SnapshotExact ==
    response.op = "pending" =>
        /\ \A i, j \in 1..Len(response.body) :
              response.body[i] = response.body[j] => i = j
        /\ {response.body[i] : i \in 1..Len(response.body)} = WaitedIds
        /\ \A request_id \in DOMAIN pending_approvals :
              ~FutureDone(pending_approvals[request_id])
              => \E i \in 1..Len(response.body) : response.body[i] = request_id

\* C11 witness: a snapshot of two outstanding requests, taken after one of
\* them was decided.
C11_Witness ==
    /\ response.op = "pending"
    /\ Len(response.body) = 2
    /\ \E c \in DOMAIN futures : FutureDone(c)
    /\ \E c \in DOMAIN futures : ~FutureDone(c)

\* C12: round trip. A call made with arguments A and approved (the approve
\* handler takes no override) returns to its caller an allow whose
\* updatedInput is A, unchanged.
C12_RoundTrip ==
    [][ (tool_result'.pc = "returned" /\ tool_result'.result.behavior = "allow")
        => tool_result'.result =
              [behavior |-> "allow",
               updatedInput |-> waiters[tool_result'.call].details.input]
      ]_vars

\* C12 witness: the call made with the "rm" arguments returned its allow.
C12_Witness ==
    /\ tool_result.pc = "returned"
    /\ tool_result.result.behavior = "allow"
    /\ tool_result.result.updatedInput.command = "rm"

\* C13: a timer that fires after its request was decided or removed is a
\* no-op: it assigns no decision slot, changes no registry and no waiter,
\* and schedules no notification.
C13_LateTimerNoOp ==
    [][ \A t \in DOMAIN timers :
            (/\ t \notin DOMAIN timers'
             /\ \/ ~DictHas(pending_approvals, timers[t])
                \/ futures[pending_approvals[timers[t]]].state # "PENDING")
            => /\ UNCHANGED <<registries, futures, waiters>>
               /\ sent' = NoSends
               /\ tool_result' = NoToolResult
      ]_vars

\* C13 witness: the timer of a request fired while its slot held the allow
\* of an earlier approve, and the slot still holds it.
C13_Witness ==
    /\ 1 \in DOMAIN futures
    /\ futures[1].result.behavior = "allow"
    /\ 1 \notin DOMAIN timers
    /\ SessionOf(waiters[1].request_id) # ""
    /\ slack_configured

\* C14: a tool call whose tool_name is missing or empty is rejected with an
\* error before registration: the step that raises registers nothing, starts
\* no timer, draws no id and sends nothing, and no registered request has an
\* empty tool_name.
C14_RejectedBeforeRegistration ==
    /\ [][ tool_result'.pc = "raised" =>
              /\ UNCHANGED <<registries, futures, waiters, timers, calls, uuids>>
              /\ sent' = NoSends
         ]_vars
    /\ [](\A i \in 1..Len(approval_details) : approval_details[i][2].tool_name # "")

\* C14 witness: a call without tool_name was rejected while another request
\* was pending and notifications were configured.
C14_Witness ==
    /\ tool_result.pc = "raised"
    /\ tool_result.result.error = "Missing tool_name"
    /\ Len(approval_details) = 1
    /\ slack_configured

\* C15: a failing notification never affects the approval flow. The step
\* that schedules a send that will fail raises nothing and answers no 500;
\* a failing request notification still leaves the request registered,
\* undecided, timed and waited on; a failing result notification leaves the
\* registries and the waiter as they were and the decision slot assigned
\* with the decision of the step that found it unassigned.
C15_SinkFailureHarmless ==
    [][ \A i \in 1..Len(sent') :
            ~sent'[i].delivered =>
            LET id == sent'[i].id IN
            /\ tool_result'.pc # "raised"
            /\ response'.status \in {0, 200}
            /\ sent'[i].kind = "request" =>
                  /\ DictHas(pending_approvals', id)
                  /\ id \in ODictKeys(approval_details')
                  /\ futures'[pending_approvals'[id]] = NewFuture
                  /\ pending_approvals'[id] \in DOMAIN timers'
                  /\ id \in {waiters'[c].request_id : c \in DOMAIN waiters'}
            /\ sent'[i].kind = "result" =>
                  /\ UNCHANGED <<registries, waiters>>
                  /\ futures'[pending_approvals[id]].state # "PENDING"
                  /\ futures[pending_approvals[id]].state = "PENDING" =>
                        futures'[pending_approvals[id]].result =
                           CASE sent'[i].result = "approved" ->
                                   AllowResult(waiters[pending_approvals[id]].details.input)
                             [] sent'[i].result = "denied" -> DenyByUser
                             [] OTHER -> DenyByTimeout
      ]_vars

\* C15 witness: the notification of an approve failed, the handler answered
\* "approved" and the decision slot holds the allow for the waiting caller.
C15_Witness ==
    /\ Len(sent) = 1
    /\ ~sent[1].delivered
    /\ sent[1].result = "approved"
    /\ response.body = <<"approved">>
    /\ response.id \in WaitedIds
    /\ futures[pending_approvals[response.id]].result.behavior = "allow"

\* the lifecycle state of the request with this id, read off the registries,
\* its future and the ids drawn so far
RequestState(request_id) ==
    IF ~DictHas(pending_approvals, request_id)
    THEN IF request_id <= uuids THEN "REMOVED" ELSE "CREATED"
    ELSE LET f == pending_approvals[request_id] IN
         IF ~DictHas(futures, f) THEN "ORPHANED"
         ELSE IF futures[f].state = "PENDING" THEN "PENDING"
         ELSE IF futures[f].state = "CANCELLED" THEN "CANCELLED"
         ELSE IF futures[f].result.behavior = "allow" THEN "RESOLVED_ALLOW"
         ELSE "RESOLVED_DENY"

RequestStates ==
    {"CREATED", "PENDING", "RESOLVED_ALLOW", "RESOLVED_DENY", "CANCELLED", "REMOVED"}

\* the steps of the lifecycle; CANCELLED is the wait given up by its caller
Forward ==
    {<<st, st>> : st \in RequestStates}
    \cup {<<"CREATED", "PENDING">>,
          <<"PENDING", "RESOLVED_ALLOW">>, <<"PENDING", "RESOLVED_DENY">>,
          <<"PENDING", "CANCELLED">>,
          <<"RESOLVED_ALLOW", "REMOVED">>, <<"RESOLVED_DENY", "REMOVED">>,
          <<"CANCELLED", "REMOVED">>}

\* C16: each request moves only forward through CREATED, PENDING, RESOLVED
\* (allow, or deny by decision or timeout) and REMOVED. It never leaves the
\* table while its slot is unassigned and its caller waits, never goes back
\* from resolved to pending, is removed only by the step that ends its call,
\* and once resolved it is eventually removed.
C16_ForwardOnly ==
    /\ [][ \A request_id \in Ids :
              /\ <<RequestState(request_id), RequestState(request_id)'>> \in Forward
              /\ (DictHas(pending_approvals, request_id)
                  /\ ~DictHas(pending_approvals', request_id))
                 => (CallEnded /\ tool_result'.request_id = request_id)
         ]_vars
    /\ \A request_id \in Ids :
          (RequestState(request_id) \in {"RESOLVED_ALLOW", "RESOLVED_DENY"})
          ~> (RequestState(request_id) = "REMOVED")

\* C16 witness: one request has gone all the way to REMOVED by a timeout
\* while a later one is resolved and not yet removed.
C16_Witness ==
    /\ tool_result.pc = "returned"
    /\ tool_result.result = DenyByTimeout
    /\ RequestState(tool_result.request_id) = "REMOVED"
    /\ \E request_id \in Ids : RequestState(request_id) = "RESOLVED_ALLOW"

\* C17: a suspended create_approval_request blocks nothing. While a call is
\* suspended, a new request can be registered, the pending list can be
\* served, and every other undecided request can be approved, denied or
\* timed out, each with its full effect.
C17_SuspensionBlocksNothing ==
    \A c \in DOMAIN waiters :
        /\ ENABLED (HandlePending /\ response'.status = 200
                    /\ Len(response'.body) = Len(approval_details))
        /\ calls < MaxCalls =>
              ENABLED (/\ \E input_data \in Inputs : HandleCallTool("Bash", input_data)
                       /\ calls' = calls + 1
                       /\ Len(approval_details') = Len(approval_details) + 1)
        /\ \A d \in DOMAIN waiters \ {c} :
              futures[d].state = "PENDING" =>
                 /\ ENABLED (/\ HandleApprove(waiters[d].request_id)
                             /\ response'.status = 200
                             /\ futures'[d].result.behavior = "allow")
                 /\ ENABLED (/\ HandleDeny(waiters[d].request_id)
                             /\ response'.status = 200
                             /\ futures'[d].result = DenyByUser)
                 /\ d \in DOMAIN timers =>
                       ENABLED (TimeoutHandler(d) /\ futures'[d].result = DenyByTimeout)

\* C17 witness: the later of two requests was approved while the call of the
\* earlier one was still suspended on its undecided future.
C17_Witness ==
    /\ DOMAIN waiters = {1, 2}
    /\ futures[1].state = "PENDING"
    /\ response.op = "approve"
    /\ response.id = waiters[2].request_id
    /\ futures[2].result.behavior = "allow"

\* C18: every result that the tool call returns has one of two shapes: allow
\* with updatedInput equal to the arguments of the request, or deny with a
\* message text. A deny without a message is never returned.
C18_TwoShapes ==
    [][ tool_result'.pc = "returned" =>
          LET r == tool_result'.result IN
          \/ /\ DOMAIN r = {"behavior", "updatedInput"}
             /\ r.behavior = "allow"
             /\ r.updatedInput = waiters[tool_result'.call].details.input
          \/ /\ DOMAIN r = {"behavior", "message"}
             /\ r.behavior = "deny"
             /\ r.message # ""
      ]_vars

\* C18 witness: the tool call returned the deny of an explicit decision.
C18_Witness == tool_result.pc = "returned" /\ tool_result.result = DenyByUser

\* the message the timeout is to carry for a configured duration
TimedOutAfter(seconds) ==
    IF seconds = 300 THEN "Request timed out after 5 minutes"
    ELSE "Request timed out after 1 minute"

\* C19 (as claimed): the deny that a timeout stores carries the message
\* "Request timed out after <duration>" for the configured timeout_seconds,
\* whatever its value.
C19_MessageNamesDuration ==
    [][ \A t \in DOMAIN timers :
            (/\ t \notin DOMAIN timers'
             /\ DictHas(pending_approvals, timers[t])
             /\ futures[pending_approvals[timers[t]]].state = "PENDING")
            => futures'[pending_approvals[timers[t]]].result.message
                  = TimedOutAfter(timeout_seconds)
      ]_vars

\* C20: the timer starts at registration, not at notification delivery. The
\* step that registers an entry also arms its timer and suspends the caller,
\* whether or not a notification is sent or delivered, and in every state
\* each undecided entry of the table has a timer that is still to fire.
C20_TimerArmedAtRegistration ==
    /\ [][ calls' = calls + 1 =>
              /\ calls' \in DOMAIN timers'
              /\ calls' \in DOMAIN waiters'
              /\ timers'[calls'] = waiters'[calls'].request_id
              /\ pending_approvals'[timers'[calls']] = calls'
         ]_vars
    /\ [](\A request_id \in DOMAIN pending_approvals :
             futures[pending_approvals[request_id]].state = "PENDING" =>
                /\ pending_approvals[request_id] \in DOMAIN timers
                /\ timers[pending_approvals[request_id]] = request_id)

\* C20 witness: a request was registered whose notification fails, and its
\* timer is armed.
C20_Witness ==
    /\ Len(sent) = 1
    /\ sent[1].kind = "request"
    /\ ~sent[1].delivered
    /\ futures[pending_approvals[sent[1].id]].state = "PENDING"
    /\ timers[pending_approvals[sent[1].id]] = sent[1].id

\* C21 (as claimed): when approve or deny decides a request, its timer is
\* cancelled: after the step that assigned the decision no timer task for
\* the request remains.
C21_TimerCancelledOnDecision ==
    [][ \A request_id \in Ids :
            (/\ Decided(request_id)
             /\ DictHas(pending_approvals, request_id)
             /\ Assigned(pending_approvals[request_id]))
            => pending_approvals[request_id] \notin DOMAIN timers'
      ]_vars

\* C26 (as claimed): the timer armed by one call of create_approval_request
\* resolves only the future of that call, never the future of a later
\* registration of the same id.
C26_TimerOwnFutureOnly ==
    [][ \A t \in DOMAIN timers :
            t \notin DOMAIN timers' =>
               \A f \in DOMAIN futures : f # t => futures'[f] = futures[f]
      ]_vars

\* C27: the three registries agree. approval_details and pending_approvals
\* have the same keys and every key of session_mapping is one of them, after
\* any sequence of create, approve, deny, timeout and cancellation, repeated
\* ids included.
C27_RegistriesAgree ==
    /\ ODictKeys(approval_details) = DOMAIN pending_approvals
    /\ Len(approval_details) = Cardinality(DOMAIN pending_approvals)
    /\ DOMAIN session_mapping \subseteq DOMAIN pending_approvals

\* C27 witness: of two calls one was cancelled and cleaned up, and the other
\* is still registered with its session.
C27_Witness ==
    /\ tool_result.pc = "cancelled"
    /\ calls = 2
    /\ Len(approval_details) = 1
    /\ DOMAIN session_mapping = DOMAIN pending_approvals

\* C30: an approve or deny whose body has no request_id, or is not JSON, is
\* answered 400, or 500 for the exception, and changes nothing: no decision
\* slot, no registry, no waiter, no timer, and nothing is sent.
C30_BadBodyChangesNothing ==
    [][ (response'.op \in {"approve", "deny"} /\ response'.id \in {NoId, BadJson})
        => /\ response'.status = (IF response'.id = NoId THEN 400 ELSE 500)
           /\ UNCHANGED <<registries, futures, waiters, timers>>
           /\ sent' = NoSends
           /\ tool_result' = NoToolResult
      ]_vars

\* C30 witness: a deny without request_id was answered 400 while a request
\* with a session was waiting undecided.
C30_Witness ==
    /\ response.op = "deny"
    /\ response.id = NoId
    /\ response.status = 400
    /\ \E c \in DOMAIN waiters :
          /\ futures[c].state = "PENDING"
          /\ DictHas(session_mapping, waiters[c].request_id)
    /\ slack_configured

\* the enabled handlers, in dispatch order
EnabledHandlers ==
    SelectSeq(HandlerOrder,
              LAMBDA h : (h = "slack" /\ slack) \/ (h = "zunda" /\ zunda)
                         \/ (h = "logger" /\ logger))

StartsSent(session_id) ==
    {i \in 1..Len(channel) :
        channel[i].session = session_id /\ channel[i].kind = "start"}

\* the threads of a session: its messages that were posted without thread_ts
ThreadRoots(session_id) ==
    {i \in 1..Len(channel) :
        channel[i].session = session_id /\ channel[i].thread_ts = NoTs}

\* C23 (as claimed): once a thread_ts is saved for a session, every later
\* post for the session carries it, and no later send replaces it.
C23_ThreadContinues ==
    [][ /\ \A session_id \in Sessions :
              thread_files[session_id] > NoTs =>
                 thread_files'[session_id] = thread_files[session_id]
        /\ (posted'.proc # 0 /\ thread_files[posted'.session] > NoTs) =>
              posted'.thread_ts = thread_files[posted'.session]
      ]_vars

\* C24: a send that fails, by an answer with ok false or by an exception of
\* the HTTP call, returns None, raises nothing (handle_event goes on to its
\* next notification or returns) and leaves the saved thread state as it is.
C24_FailedSendChangesNothing ==
    [][ posted'.outcome \in {"not_ok", "exception"} =>
          /\ posted'.result = NoTs
          /\ thread_files' = thread_files
          /\ channel' = channel
          /\ notifiers'[posted'.proc].pc =
                (IF posted'.kind = "start" THEN "load" ELSE "idle")
      ]_vars

\* C24 witness: the first send of a session failed with an exception, and no
\* thread state was written.
C24_Witness ==
    /\ posted.outcome = "exception"
    /\ posted.thread_ts = NoTs
    /\ thread_files[posted.session] = NoFile
    /\ channel = << >>

\* C28 (as claimed): the session-start notification is sent at most once for
\* a session, and it precedes the notification of the event that caused it.
C28_SessionStartOnce ==
    /\ [](\A session_id \in Sessions : Cardinality(StartsSent(session_id)) <= 1)
    /\ [][ posted'.kind = "event" => notifiers[posted'.proc].sending = "event" ]_vars

\* C29 (as claimed): at most one thread is created for a session, and the
\* saved thread_ts is the ts of the post that created it.
C29_OneThreadPerSession ==
    \A session_id \in Sessions :
        /\ Cardinality(ThreadRoots(session_id)) <= 1
        /\ thread_files[session_id] > NoTs =>
              thread_files[session_id] \in ThreadRoots(session_id)

\* where a line is found in the files of the log directory
Occurrences(line) ==
    {<<name, k>> \in LogNames \X (1..(MaxThreads * MaxLogCalls)) :
        /\ log_dir[name] # NoInode
        /\ k <= Len(inodes[log_dir[name]])
        /\ inodes[log_dir[name]][k] = line}

\* C25 (as claimed): when threads call handle_event on one logger at the
\* same time, every event is logged: once all calls have returned, the log
\* holds exactly one line for each call, none lost and none twice.
C25_EveryEventLogged ==
    (\A t \in LogThreads : log_threads[t].pc = "idle") =>
        \A t \in LogThreads : \A n \in 1..log_threads[t].calls :
            Cardinality(Occurrences(<<t, n>>)) = 1

====
